---- MODULE Spec2Model ----
(***************************************************************************)
(* Model of ct/scanner/scanner.go: the Scan pipeline of the Certificate    *)
(* Transparency log scanner (range generation, fetcher goroutines,         *)
(* matcher goroutines, the two channels, the two counters, the ticker).    *)
(***************************************************************************)
EXTENDS Integers, Sequences, FiniteSets, Bags, TLC

(* ------------------------------------------------------------------ *)
(* Bounds of the model                                                 *)
(* ------------------------------------------------------------------ *)
\* largest log (tree size) the pipeline specification scans
MaxTree == 3
\* largest StartIndex option of the pipeline specification
MaxStart == 1
\* largest BlockSize option of the pipeline specification
MaxBlock == 2
\* largest number of fetcher goroutines (ParallelFetch)
MaxFetchers == 2
\* largest number of matcher goroutines (NumWorkers)
MaxMatchers == 2
\* the count of failed GetEntries calls (partialErrs) saturates here
MaxErrs == 1
\* capacity of the fetches channel in the model (100 in the source)
FetchesCap == 1
\* capacity of the jobs channel in the model (5000 in the source)
JobsCap == 2
\* largest value of a counter left by an earlier Scan of the same Scanner
MaxPrev == 1
\* bounds of the range-generation specification
MaxRTree == 9
MaxRStart == 9
MaxRBlock == 4

(* ------------------------------------------------------------------ *)
(* State                                                               *)
(* ------------------------------------------------------------------ *)
VARIABLES
    log,            \* the log server's entries: log[i+1] is the kind of leaf i
    opts,           \* Scanner.opts
    certsProcessed, \* Scanner.certsProcessed
    precertsSeen,   \* Scanner.precertsSeen
    scanPC,         \* position of Scan
    scanErr,        \* value returned by Scan
    treeSize,       \* latestSth.TreeSize
    tickerRunning,  \* the ticker of Scan and its goroutine are alive
    ranges,         \* the list of fetchRange built by Scan
    nextRange,      \* position of the send loop in ranges
    fetches,        \* buffer of the fetches channel
    fetchesClosed,
    jobs,           \* buffer of the jobs channel
    jobsClosed,
    fetcherWG,
    matcherWG,
    fpc,            \* position of each fetcherJob
    fr,             \* r of each fetcherJob
    fleaves,        \* leaves of each fetcherJob not yet sent
    mpc,            \* position of each matcherJob
    mtmp,           \* precertsSeen as loaded by s.precertsSeen++
    getEntriesCalled, \* GetEntries has been called
    partialErrs,    \* number of failed GetEntries calls for a batch that was
                    \* already partly sent (saturating)
    enqueued,       \* history: bag of the indices of the jobs sent to jobs
    taken,          \* history: bag of the indices of the jobs received from jobs
    certCalls,      \* history: bag of the arguments of foundCert
    precertCalls    \* history: bag of the arguments of foundPrecert

vars == <<log, opts, certsProcessed, precertsSeen, scanPC, scanErr, treeSize,
          tickerRunning, ranges, nextRange, fetches, fetchesClosed,
          jobs, jobsClosed, fetcherWG, matcherWG, fpc, fr, fleaves, mpc,
          mtmp, getEntriesCalled, partialErrs, enqueued, taken,
          certCalls, precertCalls>>

scanVars == <<scanPC, scanErr, treeSize, ranges, nextRange>>
chanVars == <<fetches, fetchesClosed, jobs, jobsClosed>>
fetcherVars == <<fpc, fr, fleaves>>
matcherVars == <<mpc, mtmp>>
counterVars == <<certsProcessed, precertsSeen>>
envVars == <<getEntriesCalled, partialErrs>>
histVars == <<enqueued, taken, certCalls, precertCalls>>

(* ------------------------------------------------------------------ *)
(* Values                                                              *)
(* ------------------------------------------------------------------ *)
Fetchers == 1..MaxFetchers
Matchers == 1..MaxMatchers

MatcherKinds == {"MatchAll", "MatchNone", "MatchSubjectRegex"}

NoRange == [start |-> 0, end |-> -1]

\* the leaf input the log stores at index i
LeafAt(i) == [at |-> i, kind |-> log[i + 1]]

\* GetSTH: the tree size of the log
LogSize == Len(log)


(* ------------------------------------------------------------------ *)
(* Pure functions                                                      *)
(* ------------------------------------------------------------------ *)
\* min(a, b): the smaller of a and b
min(a, b) == IF a < b THEN a ELSE b

\* faulty variant of CertificateMatches: every matcher answers as MatchAll
CertificateMatchesAlways(m, c) == TRUE

\* MatchAll / MatchNone / MatchSubjectRegex . CertificateMatches
CertificateMatches(m, c) ==
    CASE m = "MatchAll" -> TRUE
      [] m = "MatchNone" -> FALSE
      [] m = "MatchSubjectRegex" -> c.cn \/ c.san

\* NewScanner: the options as the Scanner stores them
NewScanner(o) ==
    IF o.Matcher = "nil" THEN [o EXCEPT !.Matcher = "MatchAll"] ELSE o

\* client.NewMerkleTreeLeaf: the entry type of the leaf, or an error
NewMerkleTreeLeaf(leaf) ==
    CASE leaf.kind = "badleaf" -> "error"
      [] leaf.kind = "precert" -> "PrecertLogEntryType"
      [] OTHER -> "X509LogEntryType"

\* x509.ParseCertificate on the X509Entry of the leaf: err, or the certificate
\* (cn: the regexp finds the common name, san: it finds one of the DNS names)
ParseCertificate(leaf) ==
    [err |-> leaf.kind = "badcert",
     at |-> leaf.at,
     cn |-> leaf.kind = "x509_cn",
     san |-> leaf.kind = "x509_san"]

\* faulty variant of RangeEnd: the end is not clamped to the last index
RangeEndUnclamped(start, blockSize, size) == start + blockSize

\* end of the range that starts at start (the loop body of Scan)
RangeEnd(start, blockSize, size) == min(start + blockSize, size - 1)

\* start of the range after the one that ends at end
RangeNext(end) == end + 1

\* faulty variant of BuildRanges: the loop condition is not tested before the
\* first range is made, and one range is made
BuildRangesUnchecked(start, blockSize, size) ==
    <<[start |-> start, end |-> RangeEnd(start, blockSize, size)]>>

\* the for loop of Scan that fills the list ranges
RECURSIVE BuildRanges(_, _, _)
BuildRanges(start, blockSize, size) ==
    IF start < size
    THEN LET end == RangeEnd(start, blockSize, size)
         IN  <<[start |-> start, end |-> end]>>
                 \o BuildRanges(RangeNext(end), blockSize, size)
    ELSE <<>>

\* the answers GetEntries(start, end) can give: an error, or the leaves of
\* a prefix of the range (a log may return fewer leaves than requested)
GetEntriesResponses(start, end) ==
    {[err |-> TRUE, leaves |-> <<>>]} \cup
    {[err |-> FALSE, leaves |-> [k \in 1..n |-> LeafAt(start + k - 1)]] :
        n \in 0..(end - start + 1)}

(* ------------------------------------------------------------------ *)
(* Initial state: a constructed Scanner, a log, no Scan started        *)
(* ------------------------------------------------------------------ *)
\* The kinds of leaf bytes: "badleaf" does not parse as a MerkleTreeLeaf,
\* "badcert" is an X509 entry whose certificate does not parse, "precert" is a
\* precertificate entry, "x509_cn", "x509_san" and "x509_none" are X509
\* entries of a certificate in whose common name, in one of whose DNS names,
\* and in none of whose names the regexp of a MatchSubjectRegex is found.
\* The logs of the model repeat one of these cycles of kinds: one puts two
\* precertificates next to each other, the other holds the entries that fail
\* to decode.
LogCycles ==
    {<<"precert", "precert", "x509_san">>,
     <<"x509_none", "badcert", "badleaf">>}

\* the logs of at most MaxTree entries
Logs ==
    {[k \in 1..n |-> c[((k - 1) % Len(c)) + 1]] : n \in 0..MaxTree, c \in LogCycles}

Options ==
    [Matcher : {"nil"} \cup MatcherKinds,
     BlockSize : 1..MaxBlock,
     NumWorkers : 1..MaxMatchers,
     ParallelFetch : 1..MaxFetchers,
     StartIndex : 0..MaxStart]

InitRest ==
    /\ scanErr = "none"
    /\ tickerRunning = FALSE
    /\ ranges = <<>>
    /\ nextRange = 1
    /\ fetches = <<>>
    /\ fetchesClosed = FALSE
    /\ jobs = <<>>
    /\ jobsClosed = FALSE
    /\ fetcherWG = 0
    /\ matcherWG = 0
    /\ fpc = [w \in Fetchers |-> "unstarted"]
    /\ fr = [w \in Fetchers |-> NoRange]
    /\ fleaves = [w \in Fetchers |-> <<>>]
    /\ mpc = [w \in Matchers |-> "unstarted"]
    /\ mtmp = [w \in Matchers |-> 0]
    /\ getEntriesCalled = FALSE
    /\ partialErrs = 0
    /\ enqueued = EmptyBag
    /\ taken = EmptyBag
    /\ certCalls = EmptyBag
    /\ precertCalls = EmptyBag

\* the counters are those a Scanner is made with (0), or those an earlier Scan
\* of the same Scanner has left
Init ==
    /\ \E o \in Options : opts = NewScanner(o)
    /\ log \in Logs
    /\ certsProcessed \in 0..MaxPrev
    /\ precertsSeen \in 0..MaxPrev
    /\ scanPC = "start"
    /\ treeSize = 0
    /\ InitRest

\* Initial states of the range-generation specification: Scan is about to
\* build ranges, for a start index, block size and tree size of wider bounds
RangeOptions ==
    [Matcher : {"MatchAll"},
     BlockSize : 1..MaxRBlock,
     NumWorkers : {1},
     ParallelFetch : {1},
     StartIndex : 0..MaxRStart]

InitRanges ==
    /\ log = <<>>
    /\ opts \in RangeOptions
    /\ certsProcessed = 0
    /\ precertsSeen = 0
    /\ scanPC = "ranges"
    /\ treeSize \in 0..MaxRTree
    /\ InitRest

(* ------------------------------------------------------------------ *)
(* Scan                                                                *)
(* ------------------------------------------------------------------ *)

\* faulty variant of ScanReset: the counters are not reset
ScanResetForgotten ==
    /\ scanPC = "start"
    /\ scanPC' = "getsth"
    /\ UNCHANGED <<log, opts, certsProcessed, precertsSeen, scanErr,
                   treeSize, tickerRunning, ranges, nextRange, fetches,
                   fetchesClosed, jobs, jobsClosed, fetcherWG, matcherWG,
                   fpc, fr, fleaves, mpc, mtmp, getEntriesCalled,
                   partialErrs, enqueued, taken, certCalls, precertCalls>>

\* s.certsProcessed = 0; s.precertsSeen = 0
ScanReset ==
    /\ scanPC = "start"
    /\ certsProcessed' = 0
    /\ precertsSeen' = 0
    /\ scanPC' = "getsth"
    /\ UNCHANGED <<log, opts, scanErr, treeSize, tickerRunning, ranges,
                   nextRange, fetches, fetchesClosed, jobs, jobsClosed,
                   fetcherWG, matcherWG, fpc, fr, fleaves, mpc, mtmp,
                   getEntriesCalled, partialErrs, enqueued, taken, certCalls,
                   precertCalls>>

\* faulty variant of ScanGetSTHError: the error is noted and Scan goes on
ScanGetSTHErrorIgnored ==
    /\ scanPC = "getsth"
    /\ scanErr' = "sth_error"
    /\ scanPC' = "ticker"
    /\ UNCHANGED <<log, opts, certsProcessed, precertsSeen, treeSize,
                   tickerRunning, ranges, nextRange, fetches, fetchesClosed,
                   jobs, jobsClosed, fetcherWG, matcherWG, fpc, fr, fleaves,
                   mpc, mtmp, getEntriesCalled, partialErrs, enqueued, taken,
                   certCalls, precertCalls>>

\* s.logClient.GetSTH() returns an error: return err
ScanGetSTHError ==
    /\ scanPC = "getsth"
    /\ scanErr' = "sth_error"
    /\ scanPC' = "done"
    /\ UNCHANGED <<log, opts, certsProcessed, precertsSeen, treeSize,
                   tickerRunning, ranges, nextRange, fetches, fetchesClosed,
                   jobs, jobsClosed, fetcherWG, matcherWG, fpc, fr, fleaves,
                   mpc, mtmp, getEntriesCalled, partialErrs, enqueued, taken,
                   certCalls, precertCalls>>

\* s.logClient.GetSTH() returns the tree head
ScanGetSTH ==
    /\ scanPC = "getsth"
    /\ treeSize' = LogSize
    /\ scanPC' = "ticker"
    /\ UNCHANGED <<log, opts, certsProcessed, precertsSeen, scanErr,
                   tickerRunning, ranges, nextRange, fetches, fetchesClosed,
                   jobs, jobsClosed, fetcherWG, matcherWG, fpc, fr, fleaves,
                   mpc, mtmp, getEntriesCalled, partialErrs, enqueued, taken,
                   certCalls, precertCalls>>

\* ticker := time.NewTicker(time.Second); go func() { for _ = range ticker.C ... }()
ScanStartTicker ==
    /\ scanPC = "ticker"
    /\ tickerRunning' = TRUE
    /\ scanPC' = "ranges"
    /\ UNCHANGED <<log, opts, certsProcessed, precertsSeen, scanErr,
                   treeSize, ranges, nextRange, fetches, fetchesClosed, jobs,
                   jobsClosed, fetcherWG, matcherWG, fpc, fr, fleaves, mpc,
                   mtmp, getEntriesCalled, partialErrs, enqueued, taken,
                   certCalls, precertCalls>>

\* the loop that fills the list ranges
ScanBuildRanges ==
    /\ scanPC = "ranges"
    /\ ranges' = BuildRanges(opts.StartIndex, opts.BlockSize, treeSize)
    /\ scanPC' = "start_matchers"
    /\ UNCHANGED <<log, opts, certsProcessed, precertsSeen, scanErr,
                   treeSize, tickerRunning, nextRange, fetches,
                   fetchesClosed, jobs, jobsClosed, fetcherWG, matcherWG,
                   fpc, fr, fleaves, mpc, mtmp, getEntriesCalled,
                   partialErrs, enqueued, taken, certCalls, precertCalls>>

\* the channels are made; NumWorkers times: matcherWG.Add(1); go s.matcherJob(...)
ScanStartMatchers ==
    /\ scanPC = "start_matchers"
    /\ matcherWG' = opts.NumWorkers
    /\ mpc' = [w \in Matchers |-> IF w <= opts.NumWorkers THEN "recv" ELSE mpc[w]]
    /\ scanPC' = "start_fetchers"
    /\ UNCHANGED <<log, opts, certsProcessed, precertsSeen, scanErr,
                   treeSize, tickerRunning, ranges, nextRange, fetches,
                   fetchesClosed, jobs, jobsClosed, fetcherWG, fpc, fr,
                   fleaves, mtmp, getEntriesCalled, partialErrs, enqueued,
                   taken, certCalls, precertCalls>>

\* ParallelFetch times: fetcherWG.Add(1); go s.fetcherJob(...)
ScanStartFetchers ==
    /\ scanPC = "start_fetchers"
    /\ fetcherWG' = opts.ParallelFetch
    /\ fpc' = [w \in Fetchers |-> IF w <= opts.ParallelFetch THEN "recv" ELSE fpc[w]]
    /\ scanPC' = "send"
    /\ UNCHANGED <<log, opts, certsProcessed, precertsSeen, scanErr,
                   treeSize, tickerRunning, ranges, nextRange, fetches,
                   fetchesClosed, jobs, jobsClosed, matcherWG, fr, fleaves,
                   mpc, mtmp, getEntriesCalled, partialErrs, enqueued, taken,
                   certCalls, precertCalls>>

\* fetches <- r.Value.(fetchRange), for the next element of ranges (blocks
\* while the channel is full)
ScanSendRange ==
    /\ scanPC = "send"
    /\ nextRange <= Len(ranges)
    /\ ~fetchesClosed
    /\ Len(fetches) < FetchesCap
    /\ fetches' = Append(fetches, ranges[nextRange])
    /\ nextRange' = nextRange + 1
    /\ UNCHANGED <<log, opts, certsProcessed, precertsSeen, scanPC, scanErr,
                   treeSize, tickerRunning, ranges, fetchesClosed, jobs,
                   jobsClosed, fetcherWG, matcherWG, fpc, fr, fleaves, mpc,
                   mtmp, getEntriesCalled, partialErrs, enqueued, taken,
                   certCalls, precertCalls>>

\* the condition that ends the loop over ranges
AllRangesSent == nextRange > Len(ranges)

\* faulty variant of ScanCloseFetches: fetches is not closed
ScanCloseFetchesForgotten ==
    /\ scanPC = "send"
    /\ AllRangesSent
    /\ scanPC' = "wait_fetchers"
    /\ UNCHANGED <<log, opts, certsProcessed, precertsSeen, scanErr,
                   treeSize, tickerRunning, ranges, nextRange, fetches,
                   fetchesClosed, jobs, jobsClosed, fetcherWG, matcherWG,
                   fpc, fr, fleaves, mpc, mtmp, getEntriesCalled,
                   partialErrs, enqueued, taken, certCalls, precertCalls>>

\* the loop over ranges is over: close(fetches)
ScanCloseFetches ==
    /\ scanPC = "send"
    /\ AllRangesSent
    /\ fetchesClosed' = TRUE
    /\ scanPC' = "wait_fetchers"
    /\ UNCHANGED <<log, opts, certsProcessed, precertsSeen, scanErr,
                   treeSize, tickerRunning, ranges, nextRange, fetches, jobs,
                   jobsClosed, fetcherWG, matcherWG, fpc, fr, fleaves, mpc,
                   mtmp, getEntriesCalled, partialErrs, enqueued, taken,
                   certCalls, precertCalls>>

\* faulty variant of FetcherWaitOver: Scan does not wait for the fetchers
FetcherWaitSkipped == TRUE

\* what fetcherWG.Wait() waits for
FetcherWaitOver == fetcherWG = 0

\* fetcherWG.Wait() returns
ScanWaitFetchers ==
    /\ scanPC = "wait_fetchers"
    /\ FetcherWaitOver
    /\ scanPC' = "close_jobs"
    /\ UNCHANGED <<log, opts, certsProcessed, precertsSeen, scanErr,
                   treeSize, tickerRunning, ranges, nextRange, fetches,
                   fetchesClosed, jobs, jobsClosed, fetcherWG, matcherWG,
                   fpc, fr, fleaves, mpc, mtmp, getEntriesCalled,
                   partialErrs, enqueued, taken, certCalls, precertCalls>>

\* close(jobs)
ScanCloseJobs ==
    /\ scanPC = "close_jobs"
    /\ jobsClosed' = TRUE
    /\ scanPC' = "wait_matchers"
    /\ UNCHANGED <<log, opts, certsProcessed, precertsSeen, scanErr,
                   treeSize, tickerRunning, ranges, nextRange, fetches,
                   fetchesClosed, jobs, fetcherWG, matcherWG, fpc, fr,
                   fleaves, mpc, mtmp, getEntriesCalled, partialErrs,
                   enqueued, taken, certCalls, precertCalls>>

\* faulty variant of MatcherWaitOver: Scan does not wait for the matchers
MatcherWaitSkipped == TRUE

\* what matcherWG.Wait() waits for
MatcherWaitOver == matcherWG = 0

\* faulty variant of ScanReturn: failed GetEntries calls make Scan return an error
ScanReturnFailuresReported ==
    /\ scanPC = "wait_matchers"
    /\ MatcherWaitOver
    /\ scanErr' = IF partialErrs > 0 THEN "entries_error" ELSE "nil"
    /\ scanPC' = "done"
    /\ UNCHANGED <<log, opts, certsProcessed, precertsSeen, treeSize,
                   tickerRunning, ranges, nextRange, fetches, fetchesClosed,
                   jobs, jobsClosed, fetcherWG, matcherWG, fpc, fr, fleaves,
                   mpc, mtmp, getEntriesCalled, partialErrs, enqueued, taken,
                   certCalls, precertCalls>>

\* matcherWG.Wait() returns; the final counts are logged; return nil
ScanReturn ==
    /\ scanPC = "wait_matchers"
    /\ MatcherWaitOver
    /\ scanErr' = "nil"
    /\ scanPC' = "done"
    /\ UNCHANGED <<log, opts, certsProcessed, precertsSeen, treeSize,
                   tickerRunning, ranges, nextRange, fetches, fetchesClosed,
                   jobs, jobsClosed, fetcherWG, matcherWG, fpc, fr, fleaves,
                   mpc, mtmp, getEntriesCalled, partialErrs, enqueued, taken,
                   certCalls, precertCalls>>

\* one tick of the ticker: its goroutine reads the counters and prints a line
\* (no state of the Scanner changes)
ReporterTick ==
    /\ tickerRunning
    /\ UNCHANGED <<log, opts, certsProcessed, precertsSeen, scanPC, scanErr,
                   treeSize, tickerRunning, ranges, nextRange, fetches,
                   fetchesClosed, jobs, jobsClosed, fetcherWG, matcherWG,
                   fpc, fr, fleaves, mpc, mtmp, getEntriesCalled,
                   partialErrs, enqueued, taken, certCalls, precertCalls>>

(* ------------------------------------------------------------------ *)
(* fetcherJob                                                          *)
(* ------------------------------------------------------------------ *)
\* faulty variant of CursorAdvance: the cursor moves by two
CursorSkips(r) == [r EXCEPT !.start = r.start + 2]

\* r after one leaf has been sent: r.start++
CursorAdvance(r) == [r EXCEPT !.start = r.start + 1]

\* faulty variant of BatchComplete: the batch counts as complete one leaf early
BatchCompleteEarly(r) == r.start >= r.end

\* if r.start > r.end { success = true }
BatchComplete(r) == r.start > r.end

\* faulty variant of MakeJob: the index is read after r.start++
MakeJobAfterIncrement(leaf, r) == [leaf |-> leaf, index |-> r.start + 1]

\* the job a fetcher sends for a leaf: matcherJob{leaf, r.start}
MakeJob(leaf, r) == [leaf |-> leaf, index |-> r.start]

\* faulty variant of AfterLeaves: the fetcher goes on to the next range also
\* when the batch is not complete
AfterLeavesAbandons(r) == "recv"

\* where a fetcher goes once the leaves of a response are all sent
AfterLeaves(r) == IF BatchComplete(r) THEN "recv" ELSE "get"

\* faulty variant of AfterError: a failed call moves the cursor on
AfterErrorSkips(r) == [r EXCEPT !.start = r.start + 1]

\* r after GetEntries(r.start, r.end) returned an error: continue
AfterError(r) == r

\* the range of the list ranges a fetcher is working on (ranges never share an end)
BatchOf(r) == {b \in {ranges[k] : k \in 1..Len(ranges)} : b.end = r.end}

\* the fetcher holds a batch of which it has already sent some leaves
PartlySent(r) == \E b \in BatchOf(r) : b.start < r.start

\* for r := range ranges: a range is received
FetcherRecv(w) ==
    /\ fpc[w] = "recv"
    /\ Len(fetches) > 0
    /\ fr' = [fr EXCEPT ![w] = Head(fetches)]
    /\ fetches' = Tail(fetches)
    /\ fpc' = [fpc EXCEPT ![w] = "get"]
    /\ UNCHANGED <<log, opts, certsProcessed, precertsSeen, scanPC, scanErr,
                   treeSize, tickerRunning, ranges, nextRange, fetchesClosed,
                   jobs, jobsClosed, fetcherWG, matcherWG, fleaves, mpc,
                   mtmp, getEntriesCalled, partialErrs, enqueued, taken,
                   certCalls, precertCalls>>

\* for r := range ranges: the channel is closed and drained; wg.Done()
FetcherExit(w) ==
    /\ fpc[w] = "recv"
    /\ Len(fetches) = 0
    /\ fetchesClosed
    /\ fpc' = [fpc EXCEPT ![w] = "done"]
    /\ fr' = [fr EXCEPT ![w] = NoRange]
    /\ fetcherWG' = fetcherWG - 1
    /\ UNCHANGED <<log, opts, certsProcessed, precertsSeen, scanPC, scanErr,
                   treeSize, tickerRunning, ranges, nextRange, fetches,
                   fetchesClosed, jobs, jobsClosed, matcherWG, fleaves, mpc,
                   mtmp, getEntriesCalled, partialErrs, enqueued, taken,
                   certCalls, precertCalls>>

\* s.logClient.GetEntries(r.start, r.end) returns an error: continue
FetcherGetEntriesError(w) ==
    /\ fpc[w] = "get"
    /\ \E resp \in GetEntriesResponses(fr[w].start, fr[w].end) : resp.err
    /\ fr' = [fr EXCEPT ![w] = AfterError(fr[w])]
    /\ getEntriesCalled' = TRUE
    /\ partialErrs' = IF PartlySent(fr[w]) THEN min(partialErrs + 1, MaxErrs)
                      ELSE partialErrs
    /\ UNCHANGED <<log, opts, certsProcessed, precertsSeen, scanPC, scanErr,
                   treeSize, tickerRunning, ranges, nextRange, fetches,
                   fetchesClosed, jobs, jobsClosed, fetcherWG, matcherWG,
                   fpc, fleaves, mpc, mtmp, enqueued, taken, certCalls,
                   precertCalls>>

\* s.logClient.GetEntries(r.start, r.end) returns leaves
FetcherGetEntries(w) ==
    /\ fpc[w] = "get"
    /\ \E resp \in GetEntriesResponses(fr[w].start, fr[w].end) :
          /\ ~resp.err
          /\ fleaves' = [fleaves EXCEPT ![w] = resp.leaves]
          /\ fpc' = [fpc EXCEPT ![w] =
                        IF resp.leaves = <<>> THEN AfterLeaves(fr[w]) ELSE "send"]
    /\ getEntriesCalled' = TRUE
    /\ UNCHANGED <<log, opts, certsProcessed, precertsSeen, scanPC, scanErr,
                   treeSize, tickerRunning, ranges, nextRange, fetches,
                   fetchesClosed, jobs, jobsClosed, fetcherWG, matcherWG, fr,
                   mpc, mtmp, partialErrs, enqueued, taken, certCalls,
                   precertCalls>>

\* faulty variant of FetcherSend: a leaf that finds the channel full is dropped
FetcherSendDropsWhenFull(w) ==
    /\ fpc[w] = "send"
    /\ ~jobsClosed
    /\ LET job == MakeJob(Head(fleaves[w]), fr[w])
           r == CursorAdvance(fr[w])
           full == Len(jobs) >= JobsCap
       IN  /\ jobs' = IF full THEN jobs ELSE Append(jobs, job)
           /\ enqueued' = IF full THEN enqueued ELSE enqueued (+) SetToBag({job.index})
           /\ fr' = [fr EXCEPT ![w] = r]
           /\ fleaves' = [fleaves EXCEPT ![w] = Tail(fleaves[w])]
           /\ fpc' = [fpc EXCEPT ![w] =
                         IF Tail(fleaves[w]) = <<>> THEN AfterLeaves(r) ELSE "send"]
    /\ UNCHANGED <<log, opts, certsProcessed, precertsSeen, scanPC, scanErr,
                   treeSize, tickerRunning, ranges, nextRange, fetches,
                   fetchesClosed, jobsClosed, fetcherWG, matcherWG, mpc,
                   mtmp, getEntriesCalled, partialErrs, taken, certCalls,
                   precertCalls>>

\* entries <- matcherJob{leaf, r.start}; r.start++ (blocks while the channel
\* is full); after the last leaf: if r.start > r.end { success = true }
FetcherSend(w) ==
    /\ fpc[w] = "send"
    /\ ~jobsClosed
    /\ Len(jobs) < JobsCap
    /\ LET job == MakeJob(Head(fleaves[w]), fr[w])
           r == CursorAdvance(fr[w])
       IN  /\ jobs' = Append(jobs, job)
           /\ enqueued' = enqueued (+) SetToBag({job.index})
           /\ fr' = [fr EXCEPT ![w] = r]
           /\ fleaves' = [fleaves EXCEPT ![w] = Tail(fleaves[w])]
           /\ fpc' = [fpc EXCEPT ![w] =
                         IF Tail(fleaves[w]) = <<>> THEN AfterLeaves(r) ELSE "send"]
    /\ UNCHANGED <<log, opts, certsProcessed, precertsSeen, scanPC, scanErr,
                   treeSize, tickerRunning, ranges, nextRange, fetches,
                   fetchesClosed, jobsClosed, fetcherWG, matcherWG, mpc,
                   mtmp, getEntriesCalled, partialErrs, taken, certCalls,
                   precertCalls>>

(* ------------------------------------------------------------------ *)
(* matcherJob and processEntry                                         *)
(* ------------------------------------------------------------------ *)
\* faulty variant of Outcome: the error of x509.ParseCertificate is not tested
OutcomeParseErrorIgnored(leaf) ==
    CASE NewMerkleTreeLeaf(leaf) = "error" -> "none"
      [] NewMerkleTreeLeaf(leaf) = "PrecertLogEntryType" -> "foundPrecert"
      [] NewMerkleTreeLeaf(leaf) = "X509LogEntryType" ->
            IF CertificateMatches(opts.Matcher, ParseCertificate(leaf))
            THEN "foundCert" ELSE "none"

\* processEntry, what it calls for a leaf: "none", "foundCert" or "foundPrecert"
Outcome(leaf) ==
    CASE NewMerkleTreeLeaf(leaf) = "error" -> "none"
      [] NewMerkleTreeLeaf(leaf) = "PrecertLogEntryType" -> "foundPrecert"
      [] NewMerkleTreeLeaf(leaf) = "X509LogEntryType" ->
            IF ParseCertificate(leaf).err THEN "none"
            ELSE IF CertificateMatches(opts.Matcher, ParseCertificate(leaf))
                 THEN "foundCert" ELSE "none"

\* the arguments of foundCert(index, cert)
FoundCertArgs(e) == [index |-> e.index, cert |-> ParseCertificate(e.leaf)]

\* the arguments of foundPrecert(index, "")
FoundPrecertArgs(e) == [index |-> e.index, raw |-> ""]

\* faulty variant of AddCertsProcessed: 1 is stored, not added
StoreCertsProcessed(n) == 1

\* atomic.AddInt64(&s.certsProcessed, 1)
AddCertsProcessed(n) == n + 1

\* s.precertsSeen++, the value stored for the value loaded
IncrPrecertsSeen(n) == n + 1

\* for e := range entries: a job is received and processEntry runs on it, up
\* to its return or, for a precertificate, up to the load of s.precertsSeen++
MatcherProcess(w) ==
    /\ mpc[w] = "recv"
    /\ Len(jobs) > 0
    /\ LET e == Head(jobs)
           out == Outcome(e.leaf)
       IN  /\ jobs' = Tail(jobs)
           /\ taken' = taken (+) SetToBag({e.index})
           /\ certsProcessed' = AddCertsProcessed(certsProcessed)
           /\ certCalls' = IF out = "foundCert"
                           THEN certCalls (+) SetToBag({FoundCertArgs(e)})
                           ELSE certCalls
           /\ precertCalls' = IF out = "foundPrecert"
                              THEN precertCalls (+) SetToBag({FoundPrecertArgs(e)})
                              ELSE precertCalls
           /\ mtmp' = [mtmp EXCEPT ![w] =
                          IF out = "foundPrecert" THEN precertsSeen ELSE mtmp[w]]
           /\ mpc' = [mpc EXCEPT ![w] =
                         IF out = "foundPrecert" THEN "store" ELSE "recv"]
    /\ UNCHANGED <<log, opts, precertsSeen, scanPC, scanErr, treeSize,
                   tickerRunning, ranges, nextRange, fetches, fetchesClosed,
                   jobsClosed, fetcherWG, matcherWG, fpc, fr, fleaves,
                   getEntriesCalled, partialErrs, enqueued>>

\* s.precertsSeen++ stores the value it loaded plus one; processEntry returns
MatcherStorePrecerts(w) ==
    /\ mpc[w] = "store"
    /\ precertsSeen' = IncrPrecertsSeen(mtmp[w])
    /\ mtmp' = [mtmp EXCEPT ![w] = 0]
    /\ mpc' = [mpc EXCEPT ![w] = "recv"]
    /\ UNCHANGED <<log, opts, certsProcessed, scanPC, scanErr, treeSize,
                   tickerRunning, ranges, nextRange, fetches, fetchesClosed,
                   jobs, jobsClosed, fetcherWG, matcherWG, fpc, fr, fleaves,
                   getEntriesCalled, partialErrs, enqueued, taken, certCalls,
                   precertCalls>>

\* for e := range entries: the channel is closed and drained; wg.Done()
MatcherExit(w) ==
    /\ mpc[w] = "recv"
    /\ Len(jobs) = 0
    /\ jobsClosed
    /\ mpc' = [mpc EXCEPT ![w] = "done"]
    /\ matcherWG' = matcherWG - 1
    /\ UNCHANGED <<log, opts, certsProcessed, precertsSeen, scanPC, scanErr,
                   treeSize, tickerRunning, ranges, nextRange, fetches,
                   fetchesClosed, jobs, jobsClosed, fetcherWG, fpc, fr,
                   fleaves, mtmp, getEntriesCalled, partialErrs, enqueued,
                   taken, certCalls, precertCalls>>

(* ------------------------------------------------------------------ *)
(* Specification of the pipeline                                       *)
(* ------------------------------------------------------------------ *)
\* a step of Scan, of a fetcherJob or of a matcherJob
PipelineStep ==
    \/ ScanReset
    \/ ScanGetSTHError
    \/ ScanGetSTH
    \/ ScanStartTicker
    \/ ScanBuildRanges
    \/ ScanStartMatchers
    \/ ScanStartFetchers
    \/ ScanSendRange
    \/ ScanCloseFetches
    \/ ScanWaitFetchers
    \/ ScanCloseJobs
    \/ ScanReturn
    \/ \E w \in Fetchers : FetcherRecv(w)
    \/ \E w \in Fetchers : FetcherExit(w)
    \/ \E w \in Fetchers : FetcherGetEntriesError(w)
    \/ \E w \in Fetchers : FetcherGetEntries(w)
    \/ \E w \in Fetchers : FetcherSend(w)
    \/ \E w \in Matchers : MatcherProcess(w)
    \/ \E w \in Matchers : MatcherStorePrecerts(w)
    \/ \E w \in Matchers : MatcherExit(w)

Next ==
    \/ PipelineStep
    \/ ReporterTick

Spec == Init /\ [][Next]_vars

(* ------------------------------------------------------------------ *)
(* Specification of the range generation alone                         *)
(* ------------------------------------------------------------------ *)
NextRanges == ScanBuildRanges

SpecRanges == InitRanges /\ [][NextRanges]_vars

(* ------------------------------------------------------------------ *)
(* Specification of the pipeline under fair scheduling                 *)
(* ------------------------------------------------------------------ *)
\* the steps of the goroutine that runs Scan
ScanThread ==
    \/ ScanReset
    \/ ScanGetSTHError
    \/ ScanGetSTH
    \/ ScanStartTicker
    \/ ScanBuildRanges
    \/ ScanStartMatchers
    \/ ScanStartFetchers
    \/ ScanSendRange
    \/ ScanCloseFetches
    \/ ScanWaitFetchers
    \/ ScanCloseJobs
    \/ ScanReturn

\* GetEntries answers with at least one leaf
FetcherGetEntriesProgress(w) == FetcherGetEntries(w) /\ fleaves'[w] # <<>>

\* The scheduler runs every goroutine that can take a step, and the log does
\* not fail or answer with no leaf for ever: a call that is repeated gets an
\* answer with a leaf in the end.
Fairness ==
    /\ WF_vars(ScanThread)
    /\ \A w \in Fetchers :
          /\ WF_vars(FetcherRecv(w) \/ FetcherExit(w))
          /\ WF_vars(FetcherGetEntriesProgress(w))
          /\ WF_vars(FetcherSend(w))
    /\ \A w \in Matchers :
          WF_vars(MatcherProcess(w) \/ MatcherStorePrecerts(w) \/ MatcherExit(w))

SpecFair == Spec /\ Fairness


(* ------------------------------------------------------------------ *)
(* Vocabulary of the properties                                        *)
(* ------------------------------------------------------------------ *)
\* Scan has returned nil
Success == scanPC = "done" /\ scanErr = "nil"

\* Scan is past the loop that fills ranges
RangesBuilt ==
    /\ scanPC \notin {"start", "getsth", "ticker", "ranges"}
    /\ scanErr # "sth_error"

\* the indices Scan is to cover: [StartIndex, treeSize)
ScanRange == {i \in 0..(treeSize - 1) : i >= opts.StartIndex}

\* the indices of a range
IndicesOf(b) == b.start..b.end

\* every index of S has been sent to jobs once and received from jobs once,
\* and nothing else has
DeliveredOnce(S) ==
    /\ \A i \in S : CopiesIn(i, enqueued) = 1 /\ CopiesIn(i, taken) = 1
    /\ BagToSet(enqueued) \subseteq S
    /\ BagToSet(taken) \subseteq S

(* ------------------------------------------------------------------ *)
(* Properties                                                          *)
(* ------------------------------------------------------------------ *)
\* C1: when Scan returns nil, every index of [StartIndex, treeSize) has been
\* sent to the jobs channel in exactly one job and that job has been received
\* by a matcher exactly once; no other index has been sent or received.
C1_EveryIndexOnce == Success => DeliveredOnce(ScanRange)

\* C1 witness: a successful Scan of three entries in two batches by two
\* fetchers and two matchers
C1_Witness ==
    /\ Success
    /\ Cardinality(ScanRange) = 3
    /\ Len(ranges) = 2
    /\ opts.ParallelFetch = 2
    /\ opts.NumWorkers = 2
    /\ BagCardinality(taken) = 3

\* C2: when Scan returns nil and StartIndex < treeSize, certsProcessed is
\* treeSize - StartIndex.
C2_CountIsRangeSize ==
    (Success /\ opts.StartIndex < treeSize)
        => certsProcessed = treeSize - opts.StartIndex

\* C2 witness: two matchers have counted three entries between them
C2_Witness ==
    /\ Success
    /\ opts.NumWorkers = 2
    /\ opts.StartIndex = 0
    /\ certsProcessed = 3

\* C3: for StartIndex < treeSize the ranges start at StartIndex, each next
\* range starts right after the end of the one before it (so the starts grow
\* strictly), every range has start <= end and an end within
\* [StartIndex, treeSize-1], and the last range ends at treeSize-1.
C3_RangesPartition ==
    (RangesBuilt /\ opts.StartIndex < treeSize) =>
        /\ Len(ranges) >= 1
        /\ ranges[1].start = opts.StartIndex
        /\ ranges[Len(ranges)].end = treeSize - 1
        /\ \A k \in 1..Len(ranges) :
              /\ ranges[k].start <= ranges[k].end
              /\ opts.StartIndex <= ranges[k].end
              /\ ranges[k].end <= treeSize - 1
              /\ k > 1 => /\ ranges[k].start = ranges[k - 1].end + 1
                          /\ ranges[k].start > ranges[k - 1].start

\* C3 witness: three ranges or more, the last one shorter than the first
C3_Witness ==
    /\ RangesBuilt
    /\ opts.StartIndex > 0
    /\ Len(ranges) >= 3
    /\ ranges[Len(ranges)].end - ranges[Len(ranges)].start
           < ranges[1].end - ranges[1].start

\* C4: every range spans at most BlockSize indices.
C4_SpanAtMostBlockSize ==
    RangesBuilt =>
        \A k \in 1..Len(ranges) :
            ranges[k].end - ranges[k].start + 1 <= opts.BlockSize

\* what the loop does instead: a range spans at most BlockSize + 1 indices,
\* and every range but the last spans exactly BlockSize + 1
C4_SpanIsBlockSizePlusOne ==
    RangesBuilt =>
        \A k \in 1..Len(ranges) :
            /\ ranges[k].end - ranges[k].start + 1 <= opts.BlockSize + 1
            /\ k < Len(ranges) =>
                  ranges[k].end - ranges[k].start + 1 = opts.BlockSize + 1

\* C5: a failed GetEntries call sends no job and leaves every cursor as it
\* was; a cursor moves only by one, in the step that sends the job of the
\* index it leaves; and when Scan returns nil, whatever calls have failed
\* before, every index has been sent once and received once.
C5_RetryKeepsEveryIndexOnce ==
    [][ /\ partialErrs' # partialErrs => UNCHANGED <<fr, fleaves, jobs, enqueued>>
        /\ \A w \in Fetchers :
              (fpc[w] \in {"get", "send"} /\ fr'[w] # fr[w]) =>
                  /\ fr'[w].end = fr[w].end
                  /\ fr'[w].start = fr[w].start + 1
                  /\ enqueued' = enqueued (+) SetToBag({fr[w].start})
        /\ Success' => DeliveredOnce(ScanRange)'
      ]_vars

\* C5 witness: Scan has returned nil although GetEntries has failed, and has
\* failed on a batch that was already partly sent
C5_Witness ==
    /\ Success
    /\ partialErrs >= 1
    /\ Cardinality(ScanRange) = 3

\* C6: every job carries the index of its leaf (the k-th leaf of the answer
\* to GetEntries(cursor, end) goes with cursor + k); a fetcher that holds a
\* batch has sent, once each, exactly the indices from the start of the batch
\* up to its cursor and none from the cursor on; it asks GetEntries for
\* [cursor, end] only while cursor <= end and leaves the batch only with
\* cursor = end + 1; and when Scan returns nil each batch has had each of its
\* indices sent once.
C6_PartialResponsesResumeAtCursor ==
    /\ \A k \in 1..Len(jobs) : jobs[k].index = jobs[k].leaf.at
    /\ \A w \in Fetchers :
          /\ fpc[w] \in {"get", "send"} =>
                /\ Cardinality(BatchOf(fr[w])) = 1
                /\ \A b \in BatchOf(fr[w]) :
                      /\ b.start <= fr[w].start
                      /\ \A i \in b.start..(fr[w].start - 1) :
                            CopiesIn(i, enqueued) = 1
                      /\ \A i \in fr[w].start..b.end :
                            CopiesIn(i, enqueued) = 0
          /\ fpc[w] = "get" => fr[w].start <= fr[w].end
          /\ fpc[w] = "send" =>
                /\ Len(fleaves[w]) >= 1
                /\ Len(fleaves[w]) <= fr[w].end - fr[w].start + 1
                /\ \A k \in 1..Len(fleaves[w]) :
                      fleaves[w][k].at = fr[w].start + k - 1
          /\ (fpc[w] = "recv" /\ fr[w] # NoRange) => fr[w].start = fr[w].end + 1
    /\ Success =>
          \A k \in 1..Len(ranges) :
              \A i \in IndicesOf(ranges[k]) : CopiesIn(i, enqueued) = 1

\* C6 witness: a fetcher is about to ask again for the rest of a batch of
\* which an earlier, shorter answer has been sent
C6_Witness ==
    \E w \in Fetchers :
        /\ fpc[w] = "get"
        /\ PartlySent(fr[w])
        /\ \E b \in BatchOf(fr[w]) :
              /\ b.end - b.start + 1 = 3
              /\ CopiesIn(b.start, enqueued) = 1
              /\ CopiesIn(b.end, enqueued) = 0

\* C7: fetches is closed only once every range has been sent to it, jobs is
\* closed only once every fetcher has exited, and nobody is at a send on a
\* channel that is closed.
C7_TwoPhaseDrain ==
    /\ fetchesClosed => (RangesBuilt /\ AllRangesSent /\ scanPC # "send")
    /\ jobsClosed =>
          /\ fetchesClosed
          /\ fetches = <<>>
          /\ \A w \in Fetchers : fpc[w] \in {"unstarted", "done"}
          /\ \A w \in 1..opts.ParallelFetch : fpc[w] = "done"
    /\ \A w \in Fetchers : fpc[w] = "send" => ~jobsClosed

\* C7 witness: both channels are closed after two fetchers have sent jobs and
\* a matcher is still draining jobs
C7_Witness ==
    /\ fetchesClosed
    /\ jobsClosed
    /\ opts.ParallelFetch = 2
    /\ Len(ranges) = 2
    /\ Len(jobs) >= 1
    /\ BagCardinality(enqueued) = 3

\* C8: once GetSTH has failed, Scan has returned the error and, from then on,
\* no matcher, fetcher or ticker has been started, GetEntries has not been
\* called, no callback has been called and both counters are 0.
C8_STHErrorAborts ==
    scanErr = "sth_error" =>
        /\ scanPC = "done"
        /\ \A w \in Fetchers : fpc[w] = "unstarted"
        /\ \A w \in Matchers : mpc[w] = "unstarted"
        /\ ~tickerRunning
        /\ ~getEntriesCalled
        /\ ranges = <<>> /\ fetches = <<>> /\ jobs = <<>>
        /\ enqueued = EmptyBag /\ taken = EmptyBag
        /\ certCalls = EmptyBag /\ precertCalls = EmptyBag
        /\ certsProcessed = 0
        /\ precertsSeen = 0

\* C8 witness: Scan has returned the error of GetSTH, for a log with entries
C8_Witness ==
    /\ scanPC = "done"
    /\ scanErr = "sth_error"
    /\ Len(log) = 3
    /\ opts.StartIndex = 0

\* the scan is of an empty range: StartIndex >= treeSize
EmptyScan == RangesBuilt /\ opts.StartIndex >= treeSize

\* how far Scan and its workers are from the return of Scan
ScanRank ==
    CASE scanPC = "start_matchers" -> 6
      [] scanPC = "start_fetchers" -> 5
      [] scanPC = "send" -> 4
      [] scanPC = "wait_fetchers" -> 3
      [] scanPC = "close_jobs" -> 2
      [] scanPC = "wait_matchers" -> 1
      [] OTHER -> 0

Rank ==
    ScanRank + Cardinality({w \in Fetchers : fpc[w] # "done"})
             + Cardinality({w \in Matchers : mpc[w] # "done"})

\* C9: in a scan of an empty range (StartIndex >= treeSize) there is no range,
\* GetEntries is not called, no callback is called and certsProcessed stays
\* 0; until Scan has returned some step of Scan or of a worker can be taken,
\* and every step taken brings the return nearer; Scan returns nil, with all
\* its workers exited.
C9_EmptyRangeCompletes ==
    [][ /\ EmptyScan' =>
              /\ ranges' = <<>>
              /\ ~getEntriesCalled'
              /\ enqueued' = EmptyBag /\ taken' = EmptyBag
              /\ certCalls' = EmptyBag /\ precertCalls' = EmptyBag
              /\ certsProcessed' = 0
              /\ scanPC' # "done" => (ENABLED PipelineStep)'
              /\ scanPC' = "done" =>
                    /\ scanErr' = "nil"
                    /\ \A w \in 1..opts.ParallelFetch : fpc'[w] = "done"
                    /\ \A w \in 1..opts.NumWorkers : mpc'[w] = "done"
        /\ EmptyScan => Rank' < Rank
      ]_vars

\* C9 witness: Scan has returned nil for a StartIndex beyond a log that has
\* an entry
C9_Witness ==
    /\ Success
    /\ treeSize = 1
    /\ opts.StartIndex >= treeSize
    /\ opts.ParallelFetch = 2
    /\ opts.NumWorkers = 2

\* the indices of the scanned range whose leaf is a precertificate entry
PrecertIndices == {i \in ScanRange : log[i + 1] = "precert"}

\* foundPrecert has been called once with (i, "") and foundCert never with i
PrecertReported(i) ==
    /\ CopiesIn([index |-> i, raw |-> ""], precertCalls) = 1
    /\ \A c \in BagToSet(precertCalls) : c.index = i => c.raw = ""
    /\ \A c \in BagToSet(certCalls) : c.index # i

\* C10: when Scan returns nil, for every index of the scanned range whose leaf
\* is a precertificate entry foundPrecert has been called exactly once, with
\* (index, ""), foundCert has not been called for it, and precertsSeen has
\* been incremented for it, so that precertsSeen counts these indices;
\* whatever the matcher.
C10_PrecertReportedAndCounted ==
    Success =>
        /\ \A i \in PrecertIndices : PrecertReported(i)
        /\ precertsSeen = Cardinality(PrecertIndices)

\* the part of C10 about the callbacks, which holds: the calls of foundPrecert
\* are exactly one call (i, "") for each precertificate index
C10_PrecertCallbackOnce ==
    Success =>
        /\ \A i \in PrecertIndices : PrecertReported(i)
        /\ BagCardinality(precertCalls) = Cardinality(PrecertIndices)

\* the indices of the scanned range whose leaf bytes fail to decode, as a
\* MerkleTreeLeaf or as the certificate of an X509 entry
MalformedIndices ==
    {i \in ScanRange :
        \/ NewMerkleTreeLeaf(LeafAt(i)) = "error"
        \/ /\ NewMerkleTreeLeaf(LeafAt(i)) = "X509LogEntryType"
           /\ ParseCertificate(LeafAt(i)).err}

\* the number of calls of foundCert and of foundPrecert made for index i
CertCallsFor(i) ==
    BagCardinality([c \in {d \in BagToSet(certCalls) : d.index = i}
                        |-> CopiesIn(c, certCalls)])
PrecertCallsFor(i) ==
    BagCardinality([c \in {d \in BagToSet(precertCalls) : d.index = i}
                        |-> CopiesIn(c, precertCalls)])

\* the calls processEntry is to make for index i: <<foundCert, foundPrecert>>
CallsDue(i) ==
    CASE Outcome(LeafAt(i)) = "foundCert" -> <<1, 0>>
      [] Outcome(LeafAt(i)) = "foundPrecert" -> <<0, 1>>
      [] OTHER -> <<0, 0>>

\* a matcher receives the job of index i in this step
Takes(i) == CopiesIn(i, taken') = CopiesIn(i, taken) + 1

\* C11: for an index whose leaf bytes fail to decode no callback is ever
\* called and its job is received at most once; the step that receives its job
\* adds one to certsProcessed, calls nothing, sends nothing again, moves no
\* fetcher and keeps every matcher that is in its loop there; and when Scan
\* has returned, it has returned nil with every index received once,
\* certsProcessed counting all of them, and every other index given exactly
\* the calls due to it.
C11_MalformedLeafSkipped ==
    [][ /\ \A i \in MalformedIndices' :
              /\ CertCallsFor(i)' = 0
              /\ PrecertCallsFor(i)' = 0
              /\ CopiesIn(i, taken') <= 1
              /\ CopiesIn(i, enqueued') = 1 \/ CopiesIn(i, taken') = 0
        /\ \A i \in MalformedIndices :
              Takes(i) =>
                  /\ certsProcessed' = certsProcessed + 1
                  /\ UNCHANGED <<certCalls, precertCalls, precertsSeen, enqueued,
                                 fetches, fpc, fr, fleaves, scanPC, scanErr>>
                  /\ \A w \in Matchers : mpc[w] = "recv" => mpc'[w] = "recv"
        /\ (scanPC' = "done" /\ MalformedIndices' # {}) =>
              /\ scanErr' = "nil"
              /\ DeliveredOnce(ScanRange)'
              /\ certsProcessed' = Cardinality(ScanRange')
              /\ \A i \in ScanRange' \ MalformedIndices' :
                    <<CertCallsFor(i), PrecertCallsFor(i)>>' = CallsDue(i)'
      ]_vars

\* C11 witness: Scan has returned nil for a log with a leaf that does not
\* parse, a certificate that does not parse and a certificate that is reported
C11_Witness ==
    /\ Success
    /\ Cardinality(MalformedIndices) = 2
    /\ \E i \in ScanRange : CertCallsFor(i) = 1
    /\ certsProcessed = 3
    /\ opts.NumWorkers = 2

\* C12: once Scan has returned, with nil or with the error of GetSTH, the
\* ticker and its goroutine are stopped: no tick can come.
C12_ReporterStoppedAtReturn ==
    scanPC = "done" => (~tickerRunning /\ ~ENABLED ReporterTick)

\* what Scan does instead: nothing stops the ticker it has started, so it
\* still runs in every state after a return of nil; only the return of the
\* error of GetSTH, which comes before the ticker is made, leaves none
C12_ReporterOutlivesScan ==
    [][ /\ tickerRunning => tickerRunning'
        /\ Success' => (tickerRunning' /\ (ENABLED ReporterTick)')
        /\ (scanPC' = "done" /\ scanErr' = "sth_error") => ~tickerRunning'
      ]_vars

\* a fetcher or a matcher leaves its loop in this step
FetcherExits(w) == fpc[w] # "done" /\ fpc'[w] = "done"
MatcherExits(w) == mpc[w] # "done" /\ mpc'[w] = "done"

\* C13: Scan returns an error only in the step in which GetSTH fails; once
\* GetSTH has succeeded, whatever GetEntries calls and whatever decodings have
\* failed, Scan returns nil. A step in which a GetEntries call fails, or in
\* which a matcher receives a leaf that does not decode, makes no worker exit,
\* takes no job or range out of a channel but the job received, and changes no
\* other worker's position; a worker exits only when its channel is closed
\* and empty; and at the return every index has been sent once and received
\* once.
C13_OnlySTHErrorIsFatal ==
    [][ /\ (scanErr' \notin {"none", "nil"} /\ scanErr' # scanErr) =>
              (scanPC = "getsth" /\ scanErr' = "sth_error" /\ treeSize' = 0)
        /\ (scanPC' = "done" /\ scanPC = "wait_matchers") =>
              (scanErr' = "nil" /\ DeliveredOnce(ScanRange)')
        /\ partialErrs' # partialErrs =>
              UNCHANGED <<fpc, mpc, fetcherWG, matcherWG, jobs, fetches,
                          fr, fleaves, taken, enqueued, scanPC, scanErr>>
        /\ \A i \in MalformedIndices :
              Takes(i) =>
                  /\ jobs' = Tail(jobs)
                  /\ UNCHANGED <<fpc, mpc, fetcherWG, matcherWG, fetches,
                                 fr, fleaves, enqueued, scanPC, scanErr>>
        /\ \A w \in Fetchers :
              FetcherExits(w) => (fetchesClosed /\ fetches = <<>>)
        /\ \A w \in Matchers :
              MatcherExits(w) => (jobsClosed /\ jobs = <<>>)
      ]_vars

\* C13 witness: Scan has returned nil after a GetEntries call has failed in
\* the middle of a batch, a leaf has failed to parse and a certificate has
\* failed to parse
C13_Witness ==
    /\ Success
    /\ partialErrs >= 1
    /\ \E i \in MalformedIndices : log[i + 1] = "badleaf"
    /\ \E i \in MalformedIndices : log[i + 1] = "badcert"
    /\ opts.ParallelFetch = 2

\* C14: in the state in which Scan returns nil both channels are closed and
\* empty, every fetcher and matcher that was started has exited (both
\* WaitGroups are at 0), no matcher is inside processEntry, and every index
\* of the scanned range has been through processEntry; after the return no
\* job is received, no callback is called and no counter changes.
C14_ReturnsWhenComplete ==
    [][ /\ Success' =>
              /\ fetchesClosed' /\ fetches' = <<>>
              /\ jobsClosed' /\ jobs' = <<>>
              /\ fetcherWG' = 0 /\ matcherWG' = 0
              /\ \A w \in Fetchers :
                    fpc'[w] = IF w <= opts'.ParallelFetch THEN "done" ELSE "unstarted"
              /\ \A w \in Matchers :
                    mpc'[w] = IF w <= opts'.NumWorkers THEN "done" ELSE "unstarted"
              /\ \A w \in Fetchers : fleaves'[w] = <<>>
              /\ \A i \in ScanRange' : CopiesIn(i, taken') = 1
              /\ BagCardinality(certCalls') + BagCardinality(precertCalls')
                     <= BagCardinality(taken')
        /\ Success =>
              UNCHANGED <<taken, enqueued, certCalls, precertCalls,
                          certsProcessed, precertsSeen, mpc, fpc, jobs, fetches>>
      ]_vars

\* C14 witness: Scan has returned nil after two matchers have made two calls
\* of foundPrecert and one of foundCert
C14_Witness ==
    /\ Success
    /\ opts.NumWorkers = 2
    /\ BagCardinality(precertCalls) = 2
    /\ BagCardinality(certCalls) = 1

\* C15: no increment of a counter is lost: once Scan has reset the counters,
\* certsProcessed is the number of jobs received, and when Scan returns nil
\* precertsSeen is the number of precertificate entries of the scanned range.
C15_NoIncrementLost ==
    /\ scanPC # "start" => certsProcessed = BagCardinality(taken)
    /\ Success => precertsSeen = Cardinality(PrecertIndices)

\* what holds: certsProcessed, added to atomically, loses nothing; of
\* precertsSeen, stored by a plain load and store, only this much is sure: it
\* is not above the number of calls of foundPrecert, and not 0 once a matcher
\* has stored it
C15_OnlyCertsProcessedAtomic ==
    /\ scanPC # "start" => certsProcessed = BagCardinality(taken)
    /\ scanPC # "start" => precertsSeen <= BagCardinality(precertCalls)
    /\ (Success /\ PrecertIndices # {}) => precertsSeen >= 1

\* the batch (range of the list rs) that holds index j
BatchAtIn(rs, j) == {b \in {rs[k] : k \in 1..Len(rs)} : j \in IndicesOf(b)}
BatchAt(j) == BatchAtIn(ranges, j)

\* a fetcher sends the job of index j in this step
Enqueues(j) == CopiesIn(j, enqueued') = CopiesIn(j, enqueued) + 1

\* C16: the jobs of one batch are sent in increasing order of index: in the
\* step that sends the job of index j, the jobs of all lower indices of the
\* batch of j have been sent before and no job of j or of a higher index of
\* the batch has, also after failed and partial GetEntries answers; and the
\* jobs of one batch that wait in the channel are in increasing order.
C16_InBatchOrder ==
    [][ /\ \A j \in ScanRange :
              Enqueues(j) =>
                  /\ Cardinality(BatchAt(j)) = 1
                  /\ \A b \in BatchAt(j) :
                        /\ \A i \in b.start..(j - 1) : CopiesIn(i, enqueued) = 1
                        /\ \A k \in j..b.end : CopiesIn(k, enqueued) = 0
        /\ \A p \in 1..Len(jobs') : \A q \in 1..Len(jobs') :
              (p < q /\ BatchAtIn(ranges', jobs'[p].index)
                              = BatchAtIn(ranges', jobs'[q].index))
                  => jobs'[p].index < jobs'[q].index
      ]_vars

\* C16 witness, which also shows that no order holds across batches: the job
\* of index 2, of the second batch, waits in the channel before the job of
\* index 1, of the first batch, which was sent after a GetEntries call for the
\* rest of that batch had failed
C16_Witness ==
    /\ Len(jobs) = 2
    /\ jobs[1].index = 2
    /\ jobs[2].index = 1
    /\ BatchAt(1) # BatchAt(2)
    /\ BatchAt(0) = BatchAt(1)
    /\ partialErrs >= 1

\* the sum of f over the set S of workers
RECURSIVE SumOver(_, _)
SumOver(f, S) ==
    IF S = {} THEN 0
    ELSE LET w == CHOOSE x \in S : TRUE IN f[w] + SumOver(f, S \ {w})

\* the leaves fetched from the log that no matcher has received yet: those
\* in the jobs channel and those of a GetEntries answer a fetcher still holds
InFlight == Len(jobs) + SumOver([w \in Fetchers |-> Len(fleaves[w])], Fetchers)

\* C17: in every state the number of leaves in flight is at most the capacity
\* of the jobs channel; a fetcher whose send finds the channel full takes no
\* step until a matcher has received a job, and loses no leaf.
C17_InFlightAtMostCapacity ==
    /\ InFlight <= JobsCap
    /\ \A w \in Fetchers :
          (fpc[w] = "send" /\ Len(jobs) = JobsCap) => ~ENABLED FetcherSend(w)

\* C17 as amended: the jobs channel never holds more jobs than its capacity;
\* each fetcher holds, outside the channel, the leaves of the one answer it is
\* sending, at most as many as its batch has indices left (BlockSize + 1 at
\* most), so the leaves in flight are at most the capacity plus
\* ParallelFetch * (BlockSize + 1); a fetcher whose send finds the channel
\* full is blocked, and a leaf leaves a fetcher only by being sent.
C17_ChannelBoundedFetchersHoldBatches ==
    [][ /\ Len(jobs') <= JobsCap
        /\ InFlight' <= JobsCap + opts'.ParallelFetch * (opts'.BlockSize + 1)
        /\ \A w \in Fetchers :
              /\ Len(fleaves'[w]) <= fr'[w].end - fr'[w].start + 1
              /\ Len(fleaves'[w]) <= opts'.BlockSize + 1
              /\ w > opts'.ParallelFetch => fleaves'[w] = <<>>
        /\ \A w \in Fetchers :
              /\ (fpc[w] = "send" /\ Len(jobs) = JobsCap) =>
                    (fpc'[w] = "send" /\ fleaves'[w] = fleaves[w] /\ fr'[w] = fr[w])
              /\ (fpc[w] = "send" /\ fleaves'[w] # fleaves[w]) =>
                    /\ fleaves'[w] = Tail(fleaves[w])
                    /\ jobs' = Append(jobs, MakeJob(Head(fleaves[w]), fr[w]))
      ]_vars

\* C17 witness: the channel is full and two fetchers are blocked at their
\* sends, so more leaves are in flight than the channel can hold
C17_Witness ==
    /\ Len(jobs) = JobsCap
    /\ InFlight > JobsCap
    /\ \E w \in Fetchers : fpc[w] = "send" /\ ~ENABLED FetcherSend(w)
    /\ opts.ParallelFetch = 2

\* the indices of the scanned range whose leaf is an X509 entry with a
\* certificate that parses
X509Indices ==
    {i \in ScanRange :
        /\ NewMerkleTreeLeaf(LeafAt(i)) = "X509LogEntryType"
        /\ ~ParseCertificate(LeafAt(i)).err}

\* the number of calls of foundCert due for the certificate at index i:
\* MatchAll is true of every certificate, MatchNone of none, and a
\* MatchSubjectRegex of those with the regexp in the common name or a DNS name
CertCallsDue(i) ==
    CASE opts.Matcher = "MatchAll" -> 1
      [] opts.Matcher = "MatchNone" -> 0
      [] opts.Matcher = "MatchSubjectRegex" ->
            IF log[i + 1] \in {"x509_cn", "x509_san"} THEN 1 ELSE 0

\* C18: NewScanner stores MatchAll when no matcher is given and the given
\* matcher otherwise; for an index whose leaf is an X509 entry with a
\* certificate that parses, foundPrecert is never called, foundCert is called
\* only with (index, that certificate), once the job of the index has been
\* received it has been called once if the matcher is true of the
\* certificate and not at all if it is false, and so it is when Scan returns
\* nil: for every such index under MatchAll, for none under MatchNone.
C18_CertCallbackFollowsMatcher ==
    /\ \A o \in Options :
          NewScanner(o).Matcher =
              IF o.Matcher = "nil" THEN "MatchAll" ELSE o.Matcher
    /\ opts.Matcher \in MatcherKinds
    /\ \A i \in X509Indices :
          /\ PrecertCallsFor(i) = 0
          /\ \A c \in BagToSet(certCalls) :
                c.index = i => c.cert = ParseCertificate(LeafAt(i))
          /\ CertCallsFor(i) = IF CopiesIn(i, taken) >= 1 THEN CertCallsDue(i) ELSE 0
          /\ Success => CertCallsFor(i) = CertCallsDue(i)
    /\ Success =>
          /\ opts.Matcher = "MatchAll" =>
                BagCardinality(certCalls) = Cardinality(X509Indices)
          /\ opts.Matcher = "MatchNone" => certCalls = EmptyBag

\* C18 witness: Scan has returned nil with a MatchSubjectRegex that is true of
\* the certificate at index 2, after one call of foundCert
C18_Witness ==
    /\ Success
    /\ opts.Matcher = "MatchSubjectRegex"
    /\ 2 \in X509Indices
    /\ CertCallsDue(2) = 1
    /\ CopiesIn([index |-> 2, cert |-> ParseCertificate(LeafAt(2))], certCalls) = 1
    /\ BagCardinality(certCalls) = 1

\* GetSTH has succeeded and Scan has not returned yet
Scanning == scanPC \notin {"start", "getsth", "done"}

\* C19: under fair scheduling, with a log whose GetEntries answers a repeated
\* call with at least one leaf in the end, a Scan whose GetSTH has succeeded
\* returns nil, also when there are more ranges than the fetches channel
\* holds and more entries than the jobs channel holds.
C19_ScanReturns == Scanning ~> Success

\* C19 witness: Scan has returned nil for more ranges than the capacity of
\* fetches and more entries than the capacity of jobs
C19_Witness ==
    /\ Success
    /\ Len(ranges) > FetchesCap
    /\ Cardinality(ScanRange) > JobsCap
    /\ getEntriesCalled

\* fetcher w holds a batch that is not complete: cursor <= end
Holding(w) == fpc[w] \in {"get", "send"} /\ fr[w].start <= fr[w].end

\* C20: a fetcher that holds a batch with cursor <= end keeps it: in every
\* step it stays in the loop of that batch or leaves it complete (cursor =
\* end + 1), it does not exit, the end of its range stays, its cursor stays or
\* moves by one in the step that sends the job of the index it leaves; it
\* leaves the call of GetEntries only with an answer that has a leaf, so when
\* every call fails or answers with no leaf it calls again for ever; and
\* while a fetcher holds a batch Scan has not returned, with nil or an error.
C20_BatchNeverAbandoned ==
    [][ \A w \in Fetchers :
          /\ fpc[w] \in {"get", "send"} => Holding(w)
          /\ Holding(w) =>
                /\ fpc'[w] \in {"get", "send", "recv"}
                /\ fpc'[w] = "recv" => fr'[w].start = fr[w].end + 1
                /\ fr'[w].end = fr[w].end
                /\ fr'[w].start \in {fr[w].start, fr[w].start + 1}
                /\ fr'[w].start = fr[w].start + 1 => Enqueues(fr[w].start)
                /\ scanPC \in {"send", "wait_fetchers"}
                /\ scanPC' \in {"send", "wait_fetchers"}
                /\ scanErr' = "none"
                /\ fetcherWG' >= 1
          /\ (fpc[w] = "get" /\ fpc'[w] # "get") =>
                /\ fpc'[w] = "send"
                /\ fleaves'[w] # <<>>
                /\ fleaves'[w][1].at = fr[w].start
      ]_vars

\* C20 witness: Scan waits in fetcherWG.Wait() for a fetcher that calls
\* GetEntries again for the rest of a batch, after a call has failed, while
\* the other fetcher has exited
C20_Witness ==
    /\ scanPC = "wait_fetchers"
    /\ partialErrs >= 1
    /\ \E w \in Fetchers :
          /\ fpc[w] = "get"
          /\ PartlySent(fr[w])
          /\ \E v \in Fetchers : v # w /\ fpc[v] = "done"

====
